---- MODULE Spec2Model ----
(***************************************************************************)
(* Model of the AWS command line utilities: the S3 bucket lister and       *)
(* downloader (aws_s3.py), the credential resolution shared by the S3 and  *)
(* the Cognito tool (aws_s3.py, aws_cognito_users.py) and the CSV          *)
(* consolidation script (aws_dynamodb.py).                                 *)
(*                                                                         *)
(* Python strings that the code inspects character by character (object    *)
(* keys, prefixes, paths, column names) are sequences of one-character     *)
(* strings.  An optional value is a sequence of length 0 (None) or 1.      *)
(***************************************************************************)
EXTENDS Integers, Sequences, FiniteSets, TLC

VARIABLES
    remote,        \* keys of the objects currently in the remote bucket
    pc,            \* position of the S3 program
    call,          \* the entry point that was called and its arguments
    bucket_size,   \* get_s3_bucket_list: local bucket_size
    bucket_items,  \* get_s3_bucket_list: local bucket_items
    listing,       \* the enumeration the collect pass iterated over
    target,        \* get_s3_bucket: resolved target_folder
    idx,           \* get_s3_bucket: position of the for loop over the items
    dirs,          \* local directories that exist
    dirs0,         \* local directories that existed before the call
    files,         \* local files: path -> key of the object stored there
    downloads,     \* download_file calls issued so far, in order
    err,           \* exception that left the program, "" if none
    printed,       \* what main printed (optional listing result)
    env,           \* process environment: variable -> optional value
    cpc,           \* position of the client construction
    client,        \* what the client factory produced
    inputs,        \* CSV files in the input directory
    unread,        \* input files the script has not read yet
    header_fields, \* aws_dynamodb.py: header_fields
    csv_records,   \* aws_dynamodb.py: csv_records
    out_exists,    \* whether the output directory exists
    output,        \* the written output file (optional)
    kpc            \* position of the CSV script

s3vars   == <<remote, pc, call, bucket_size, bucket_items, listing, target,
              idx, dirs, dirs0, files, downloads, err, printed>>
credvars == <<env, cpc, client>>
csvvars  == <<inputs, unread, header_fields, csv_records, out_exists, output, kpc>>
vars     == <<s3vars, credvars, csvvars>>

None    == <<>>
Some(x) == <<x>>

---------------------------------------------------------------------------
(* Bounds *)
MaxObjects == 3     \* most objects in the remote bucket at one time
MaxFiles   == 2     \* most CSV files in the input directory

---------------------------------------------------------------------------
(* Python string operations *)

\* the prefix test replaced by a substring test (prefix in key)
startswith_contains(s, p) ==
    \E i \in 0..(Len(s) - Len(p)) : SubSeq(s, i + 1, i + Len(p)) = p

\* str.startswith(prefix) for a str prefix
startswith(s, p) ==
    /\ Len(p) <= Len(s)
    /\ SubSeq(s, 1, Len(p)) = p

\* str.replace(old, new) for a non-empty old: leftmost, non-overlapping
RECURSIVE replace(_, _, _)
replace(s, old, new) ==
    IF Len(s) < Len(old) THEN s
    ELSE IF SubSeq(s, 1, Len(old)) = old
         THEN new \o replace(SubSeq(s, Len(old) + 1, Len(s)), old, new)
         ELSE <<Head(s)>> \o replace(Tail(s), old, new)

---------------------------------------------------------------------------
(* S3: inputs *)

K_Ab    == <<"A", "/", "b">>
K_ab    == <<"a", "/", "b">>
K_abc   == <<"a", "/", "b", "/", "c", ".", "t", "x", "t">>
K_a_b   == <<"a", "_", "b">>
K_b     == <<"b">>

\* the keys an object can have, in the order S3 enumerates them (UTF-8
\* binary order: '.' < '/' < 'A' < '_' < 'a')
KeyOrder == <<K_Ab, K_ab, K_abc, K_a_b, K_b>>
Keys     == {KeyOrder[i] : i \in 1..Len(KeyOrder)}

Prefixes      == {<<>>, <<"a">>, <<"a", "/">>, <<"b">>}
BucketNames   == {<<"k">>, <<"m">>}
TargetFolders == {<<>>, <<"t">>}

CURRENT_WORKING_DIR == <<"w">>

BucketContents == {S \in SUBSET Keys : Cardinality(S) <= MaxObjects}

\* Bucket(s3_bucket).objects.all(): one enumeration of the remote bucket
objects_all(contents) == SelectSeq(KeyOrder, LAMBDA k : k \in contents)

---------------------------------------------------------------------------
(* S3: AwsS3Download *)

\* line 92 and line 97: item.key.startswith(s3_bucket_key) raises TypeError
\* when s3_bucket_key is None; it is evaluated once per enumerated object
raises_TypeError(enum, key_opt) ==
    /\ key_opt = None
    /\ enum # <<>>

\* line 92: sum(1 for item in bucket if item.key.startswith(s3_bucket_key))
count_matching(enum, prefix) ==
    Len(SelectSeq(enum, LAMBDA k : startswith(k, prefix)))

\* lines 95-101: the items collected from one enumeration
collect_items(enum, s3_bucket, prefix) ==
    LET matching == SelectSeq(enum, LAMBDA k : startswith(k, prefix))
    IN  [i \in 1..Len(matching) |->
            [bucket_name |-> s3_bucket, bucket_key |-> matching[i]]]

\* the size check off by one: >= 0
has_items_always(size) == size >= 0

\* line 117: if bucket['bucket_size'] > 0
has_items(size) == size > 0

\* line 119: target_folder if target_folder else f'{CURRENT_WORKING_DIR}/{s3_bucket}'
resolve_target(target_folder, s3_bucket) ==
    IF target_folder # None /\ target_folder[1] # <<>>
    THEN target_folder[1]
    ELSE CURRENT_WORKING_DIR \o <<"/">> \o s3_bucket

\* the key used as the local name without flattening
target_file_unflattened(target_folder, s3_bucket_key) ==
    target_folder \o <<"/">> \o s3_bucket_key

\* line 135: '{0}/{1}'.format(target_folder, s3_bucket_key.replace('/', '_'))
target_file(target_folder, s3_bucket_key) ==
    target_folder \o <<"/">> \o replace(s3_bucket_key, <<"/">>, <<"_">>)

NoCall ==
    [entry |-> "none", s3_bucket |-> <<>>, s3_bucket_key |-> None,
     target_folder |-> None, dryrun |-> FALSE]

CandidateDirs ==
    {t \in TargetFolders : t # <<>>}
        \cup {resolve_target(None, b) : b \in BucketNames}

S3Idle ==
    /\ remote = {}
    /\ pc = "idle"
    /\ call = NoCall
    /\ bucket_size = 0
    /\ bucket_items = <<>>
    /\ listing = <<>>
    /\ target = <<>>
    /\ idx = 0
    /\ dirs = {}
    /\ dirs0 = {}
    /\ files = <<>>
    /\ downloads = <<>>
    /\ err = ""
    /\ printed = None

S3Init ==
    /\ remote \in BucketContents
    /\ pc = "idle"
    /\ call = NoCall
    /\ bucket_size = 0
    /\ bucket_items = <<>>
    /\ listing = <<>>
    /\ target = <<>>
    /\ idx = 0
    /\ dirs \in SUBSET CandidateDirs
    /\ dirs0 = dirs
    /\ files = <<>>
    /\ downloads = <<>>
    /\ err = ""
    /\ printed = None

\* a caller invokes get_s3_bucket_list(s3_bucket, s3_bucket_key)
CallList ==
    /\ pc = "idle"
    /\ \E b \in BucketNames, k \in Prefixes :
          call' = [entry |-> "list", s3_bucket |-> b, s3_bucket_key |-> Some(k),
                   target_folder |-> None, dryrun |-> FALSE]
    /\ pc' = "count"
    /\ UNCHANGED <<remote, bucket_size, bucket_items, listing, target, idx,
                   dirs, dirs0, files, downloads, err, printed>>

\* a caller invokes get_s3_bucket(s3_bucket, s3_bucket_key, target_folder)
CallGet ==
    /\ pc = "idle"
    /\ \E b \in BucketNames, k \in Prefixes,
          t \in {None} \cup {Some(f) : f \in TargetFolders} :
          call' = [entry |-> "get", s3_bucket |-> b, s3_bucket_key |-> Some(k),
                   target_folder |-> t, dryrun |-> FALSE]
    /\ pc' = "count"
    /\ UNCHANGED <<remote, bucket_size, bucket_items, listing, target, idx,
                   dirs, dirs0, files, downloads, err, printed>>

\* main: lines 146-160.  args.bucket_key is None when --bucket-key is
\* omitted (add_argument without default) and is passed on as s3_bucket_key
Main ==
    /\ pc = "idle"
    /\ \E b \in BucketNames, d \in BOOLEAN,
          k \in {None} \cup {Some(p) : p \in Prefixes} :
          call' = [entry |-> "main", s3_bucket |-> b, s3_bucket_key |-> k,
                   target_folder |-> None, dryrun |-> d]
    /\ pc' = "count"
    /\ UNCHANGED <<remote, bucket_size, bucket_items, listing, target, idx,
                   dirs, dirs0, files, downloads, err, printed>>

\* other clients of the bucket put or delete objects while the listing
\* runs; a change after the listing shows only as a failing download
RemoteChange ==
    /\ pc \in {"count", "collect"}
    /\ \E c \in BucketContents :
          /\ c # remote
          /\ remote' = c
    /\ UNCHANGED <<pc, call, bucket_size, bucket_items, listing, target, idx,
                   dirs, dirs0, files, downloads, err, printed>>

\* get_s3_bucket_list, lines 91-93: the first enumeration
CountPass ==
    /\ pc = "count"
    /\ LET enum == objects_all(remote)
       IN  IF raises_TypeError(enum, call.s3_bucket_key)
           THEN /\ pc' = "error"
                /\ err' = "TypeError"
                /\ UNCHANGED bucket_size
           ELSE /\ pc' = "collect"
                /\ bucket_size' =
                      IF call.s3_bucket_key = None THEN 0
                      ELSE count_matching(enum, call.s3_bucket_key[1])
                /\ UNCHANGED err
    /\ UNCHANGED <<remote, call, bucket_items, listing, target, idx,
                   dirs, dirs0, files, downloads, printed>>

\* get_s3_bucket_list, lines 95-106: the second enumeration and the return
CollectPass ==
    /\ pc = "collect"
    /\ LET enum == objects_all(remote)
       IN  IF raises_TypeError(enum, call.s3_bucket_key)
           THEN /\ pc' = "error"
                /\ err' = "TypeError"
                /\ UNCHANGED <<bucket_items, listing>>
           ELSE /\ pc' = "listed"
                /\ listing' = enum
                /\ bucket_items' =
                      IF call.s3_bucket_key = None THEN <<>>
                      ELSE collect_items(enum, call.s3_bucket,
                                         call.s3_bucket_key[1])
                /\ UNCHANGED err
    /\ UNCHANGED <<remote, call, bucket_size, target, idx,
                   dirs, dirs0, files, downloads, printed>>

\* the direct caller of get_s3_bucket_list receives the dictionary
ReturnListing ==
    /\ pc = "listed"
    /\ call.entry = "list"
    /\ pc' = "done"
    /\ UNCHANGED <<remote, call, bucket_size, bucket_items, listing, target,
                   idx, dirs, dirs0, files, downloads, err, printed>>

\* main, lines 156-158: --dryrun prints the dictionary
PrintListing ==
    /\ pc = "listed"
    /\ call.entry = "main"
    /\ call.dryrun
    /\ printed' = Some([bucket_size |-> bucket_size,
                        bucket_items |-> bucket_items])
    /\ pc' = "done"
    /\ UNCHANGED <<remote, call, bucket_size, bucket_items, listing, target,
                   idx, dirs, dirs0, files, downloads, err>>

\* get_s3_bucket, lines 117-123: size check, target folder, makedirs
PrepareTarget ==
    /\ pc = "listed"
    /\ \/ call.entry = "get"
       \/ call.entry = "main" /\ ~call.dryrun
    /\ IF has_items(bucket_size)
       THEN LET t == resolve_target(call.target_folder, call.s3_bucket)
            IN  /\ target' = t
                /\ dirs' = dirs \cup {t}
                /\ idx' = 1
                /\ pc' = IF bucket_items = <<>> THEN "done" ELSE "download"
       ELSE /\ pc' = "done"
            /\ UNCHANGED <<target, dirs, idx>>
    /\ UNCHANGED <<remote, call, bucket_size, bucket_items, listing,
                   dirs0, files, downloads, err, printed>>

\* lines 125-126 and _get_s3_bucket_item, lines 135-137: download_file of
\* the item at the loop position succeeds
DownloadItem ==
    /\ pc = "download"
    /\ LET item == bucket_items[idx]
           path == target_file(target, item.bucket_key)
       IN  /\ downloads' = Append(downloads,
                  [bucket |-> item.bucket_name, key |-> item.bucket_key,
                   path |-> path, ok |-> TRUE])
           /\ files' = (path :> item.bucket_key) @@ files
    /\ idx' = idx + 1
    /\ pc' = IF idx = Len(bucket_items) THEN "done" ELSE "download"
    /\ UNCHANGED <<remote, call, bucket_size, bucket_items, listing, target,
                   dirs, dirs0, err, printed>>

\* a failing download caught and skipped: the loop goes on
DownloadFail_skip ==
    /\ pc = "download"
    /\ LET item == bucket_items[idx]
           path == target_file(target, item.bucket_key)
       IN  downloads' = Append(downloads,
                  [bucket |-> item.bucket_name, key |-> item.bucket_key,
                   path |-> path, ok |-> FALSE])
    /\ idx' = idx + 1
    /\ pc' = IF idx = Len(bucket_items) THEN "done" ELSE "download"
    /\ UNCHANGED <<remote, call, bucket_size, bucket_items, listing, target,
                   dirs, dirs0, files, err, printed>>

\* download_file of the item at the loop position raises: nothing catches
\* it (lines 125-126, 137), the exception leaves get_s3_bucket
DownloadFail ==
    /\ pc = "download"
    /\ LET item == bucket_items[idx]
           path == target_file(target, item.bucket_key)
       IN  downloads' = Append(downloads,
                  [bucket |-> item.bucket_name, key |-> item.bucket_key,
                   path |-> path, ok |-> FALSE])
    /\ err' = "SDKError"
    /\ pc' = "error"
    /\ UNCHANGED <<remote, call, bucket_size, bucket_items, listing, target,
                   idx, dirs, dirs0, files, printed>>

---------------------------------------------------------------------------
(* Credentials and client construction *)

EnvVars   == {"AWS_DEFAULT_REGION", "AWS_REGION",
              "AWS_ACCESS_KEY_ID_DEV", "AWS_SECRET_ACCESS_KEY_DEV"}
EnvValues == {None, Some(""), Some("v1"), Some("v2")}
Profiles  == {None, Some(""), Some("p")}

\* os.getenv(name, default): the default is used only when name is unset
getenv(e, name, default) ==
    IF e[name] = None THEN default ELSE e[name][1]

Raised(message) ==
    [raised |-> TRUE, message |-> message, aws_access_key_id |-> "",
     aws_secret_access_key |-> "", aws_region_name |-> ""]

Returned(key_id, secret, region) ==
    [raised |-> FALSE, message |-> "", aws_access_key_id |-> key_id,
     aws_secret_access_key |-> secret, aws_region_name |-> region]

\* AwsS3Download._get_aws_credentials
S3_get_aws_credentials(e) ==
    LET aws_region_name ==
            getenv(e, "AWS_DEFAULT_REGION", getenv(e, "AWS_REGION", ""))
        aws_access_key_id == getenv(e, "AWS_ACCESS_KEY_ID_DEV", "")
        aws_secret_access_key == getenv(e, "AWS_SECRET_ACCESS_KEY_DEV", "")
    IN  IF aws_region_name = ""
        THEN Raised("Environment variable [AWS_DEFAULT_REGION | AWS_REGION] not set")
        ELSE IF aws_access_key_id = ""
        THEN Raised("Environment variable AWS_ACCESS_KEY_ID_DEV not set")
        ELSE IF aws_secret_access_key = ""
        THEN Raised("Environment variable AWS_SECRET_ACCESS_KEY_DEV not set")
        ELSE Returned(aws_access_key_id, aws_secret_access_key, aws_region_name)

\* AwsClientService._get_aws_credentials
Cognito_get_aws_credentials(e) ==
    LET aws_region_name ==
            getenv(e, "AWS_DEFAULT_REGION", getenv(e, "AWS_REGION", ""))
        aws_access_key_id == getenv(e, "AWS_ACCESS_KEY_ID_DEV", "")
        aws_secret_access_key == getenv(e, "AWS_SECRET_ACCESS_KEY_DEV", "")
    IN  IF aws_region_name = ""
        THEN Raised("Environment variable [AWS_DEFAULT_REGION | AWS_REGION] not set")
        ELSE IF aws_access_key_id = ""
        THEN Raised("Environment variable AWS_ACCESS_KEY_ID_DEV not set")
        ELSE IF aws_secret_access_key = ""
        THEN Raised("Environment variable AWS_SECRET_ACCESS_KEY_DEV not set")
        ELSE Returned(aws_access_key_id, aws_secret_access_key, aws_region_name)

NoClient ==
    [service |-> "", via |-> "none", profile_name |-> "",
     credentials |-> Returned("", "", "")]

\* the client the factories build: from a profile, or from the resolved
\* credentials; a raised AwsConfigException leaves the constructor
make_client(service, aws_profile, credentials) ==
    IF aws_profile # None /\ aws_profile[1] # ""
    THEN [service |-> service, via |-> "profile",
          profile_name |-> aws_profile[1], credentials |-> Returned("", "", "")]
    ELSE [service |-> service,
          via |-> IF credentials.raised THEN "raised" ELSE "keys",
          profile_name |-> "", credentials |-> credentials]

CredIdle ==
    /\ env = [v \in EnvVars |-> None]
    /\ cpc = "start"
    /\ client = NoClient

CredInit ==
    /\ env \in [EnvVars -> EnvValues]
    /\ cpc = "start"
    /\ client = NoClient

\* AwsS3Download.__init__ -> _get_s3_client(aws_profile)
S3_get_s3_client ==
    /\ cpc = "start"
    /\ \E aws_profile \in Profiles :
          client' = make_client("s3", aws_profile, S3_get_aws_credentials(env))
    /\ cpc' = IF client'.via = "raised" THEN "error" ELSE "done"
    /\ UNCHANGED env

\* AwsCognitoUser.__init__ -> AwsClientService.get_aws_client('cognito-idp')
Cognito_get_aws_client ==
    /\ cpc = "start"
    /\ \E aws_profile \in Profiles :
          client' = make_client("cognito-idp", aws_profile,
                                Cognito_get_aws_credentials(env))
    /\ cpc' = IF client'.via = "raised" THEN "error" ELSE "done"
    /\ UNCHANGED env

---------------------------------------------------------------------------
(* CSV consolidation script *)

Col_idS     == <<"i", "d", " ", "(", "S", ")">>
Col_id      == <<"i", "d">>
Col_name    == <<"n", "a", "m", "e">>
Col_amountN == <<"a", "m", "o", "u", "n", "t", " ", "(", "N", ")">>
Col_amount  == <<"a", "m", "o", "u", "n", "t">>

File1 == [name |-> "file1", fieldnames |-> <<Col_idS, Col_name>>,
          rows |-> << <<"1", "ann">> >>]
File2 == [name |-> "file2", fieldnames |-> <<Col_idS, Col_amountN>>,
          rows |-> << <<"2", "7">>, <<"3", "9">> >>]
File3 == [name |-> "file3", fieldnames |-> <<Col_id>>,
          rows |-> << <<"4">> >>]

File4 == [name |-> "file4", fieldnames |-> <<Col_amount, Col_name>>,
          rows |-> << <<"5", "bob">> >>]

CsvFiles  == {File1, File2, File3, File4}
InputDirs == {S \in SUBSET CsvFiles : Cardinality(S) <= MaxFiles}

\* orderings of a finite set: list(header_fields) and listdir() may give any
Orderings(S) ==
    {f \in [1..Cardinality(S) -> S] :
        \A i, j \in 1..Cardinality(S) : f[i] = f[j] => i = j}

Range(f) == {f[i] : i \in DOMAIN f}

\* cleanse_header(header)
cleanse_header(header) ==
    {replace(replace(col, <<" ", "(", "S", ")">>, <<>>),
             <<" ", "(", "N", ")">>, <<>>) : col \in header}

\* csv.DictReader: one dict per row, keyed by the file's fieldnames
dict_rows(file) ==
    [r \in 1..Len(file.rows) |->
        [c \in Range(file.fieldnames) |->
            file.rows[r][CHOOSE i \in 1..Len(file.fieldnames) :
                            file.fieldnames[i] = c]]]

\* csv.DictWriter.writerow: the values in fieldnames order, '' for a
\* missing key
written_row(fieldnames, record) ==
    [i \in 1..Len(fieldnames) |->
        IF fieldnames[i] \in DOMAIN record THEN record[fieldnames[i]] ELSE ""]

CsvIdle ==
    /\ inputs = {}
    /\ unread = {}
    /\ header_fields = {}
    /\ csv_records = <<>>
    /\ out_exists = FALSE
    /\ output = None
    /\ kpc = "read"

CsvInit ==
    /\ inputs \in InputDirs
    /\ unread = inputs
    /\ header_fields = {}
    /\ csv_records = <<>>
    /\ out_exists \in BOOLEAN
    /\ output = None
    /\ kpc = "read"

\* lines 21-26: one iteration of the loop over listdir(input_dir)
ReadFile ==
    /\ kpc = "read"
    /\ \E f \in unread :
          /\ unread' = unread \ {f}
          /\ header_fields' = header_fields \cup Range(f.fieldnames)
          /\ csv_records' = csv_records \o dict_rows(f)
    /\ UNCHANGED <<inputs, out_exists, output, kpc>>

\* lines 28-37: create the output directory, write header and rows;
\* DictWriter raises ValueError for a record with a key not in fieldnames
WriteOutput ==
    /\ kpc = "read"
    /\ unread = {}
    /\ out_exists' = TRUE
    /\ \E fieldnames \in Orderings(header_fields) :
          IF \E r \in 1..Len(csv_records) :
                ~(DOMAIN csv_records[r] \subseteq Range(fieldnames))
          THEN /\ kpc' = "error"
               /\ output' = Some([header |-> fieldnames, rows |-> <<>>])
          ELSE /\ kpc' = "done"
               /\ output' = Some([header |-> fieldnames,
                     rows |-> [r \in 1..Len(csv_records) |->
                                  written_row(fieldnames, csv_records[r])]])
    /\ UNCHANGED <<inputs, unread, header_fields, csv_records>>

---------------------------------------------------------------------------
(* Specifications *)

Init == S3Init /\ CredIdle /\ CsvIdle

Next ==
    \/ (CallList /\ UNCHANGED <<credvars, csvvars>>)
    \/ (CallGet /\ UNCHANGED <<credvars, csvvars>>)
    \/ (Main /\ UNCHANGED <<credvars, csvvars>>)
    \/ (RemoteChange /\ UNCHANGED <<credvars, csvvars>>)
    \/ (CountPass /\ UNCHANGED <<credvars, csvvars>>)
    \/ (CollectPass /\ UNCHANGED <<credvars, csvvars>>)
    \/ (ReturnListing /\ UNCHANGED <<credvars, csvvars>>)
    \/ (PrintListing /\ UNCHANGED <<credvars, csvvars>>)
    \/ (PrepareTarget /\ UNCHANGED <<credvars, csvvars>>)
    \/ (DownloadItem /\ UNCHANGED <<credvars, csvvars>>)
    \/ (DownloadFail /\ UNCHANGED <<credvars, csvvars>>)

Spec == Init /\ [][Next]_vars

InitCred == S3Idle /\ CredInit /\ CsvIdle

NextCred ==
    \/ (S3_get_s3_client /\ UNCHANGED <<s3vars, csvvars>>)
    \/ (Cognito_get_aws_client /\ UNCHANGED <<s3vars, csvvars>>)

SpecCred == InitCred /\ [][NextCred]_vars

InitCsv == S3Idle /\ CredIdle /\ CsvInit

NextCsv ==
    \/ (ReadFile /\ UNCHANGED <<s3vars, credvars>>)
    \/ (WriteOutput /\ UNCHANGED <<s3vars, credvars>>)

SpecCsv == InitCsv /\ [][NextCsv]_vars

---------------------------------------------------------------------------
(* Properties of the S3 lister and downloader *)

IsPrefixOf(p, k) == \E n \in 0..Len(k) : p = [i \in 1..n |-> k[i]]

Flattened(k) == [i \in 1..Len(k) |-> IF k[i] = "/" THEN "_" ELSE k[i]]

ItemKeys == [i \in 1..Len(bucket_items) |-> bucket_items[i].bucket_key]

PositionIn(seq, x) == CHOOSE i \in 1..Len(seq) : seq[i] = x

Downloading == call.entry = "get" \/ (call.entry = "main" /\ ~call.dryrun)

\* C1: whenever get_s3_bucket_list returns, bucket_size equals the length
\* of bucket_items, whatever happens to the remote bucket during the call
C1_SizeIsLength ==
    pc = "listed" => bucket_size = Len(bucket_items)

\* C2: get_s3_bucket_list returns exactly the enumerated objects whose key
\* starts with the prefix (all of them for the empty prefix), each once, as
\* {bucket_name, bucket_key}, in enumeration order
C2_ListingIsPrefixFilter ==
    (pc = "listed" /\ call.s3_bucket_key # None) =>
        LET prefix == call.s3_bucket_key[1]
            n == Len(bucket_items)
        IN  /\ listing = objects_all(remote)
            /\ {ItemKeys[i] : i \in 1..n}
                  = {k \in remote : IsPrefixOf(prefix, k)}
            /\ prefix = <<>> => n = Cardinality(remote)
            /\ \A i \in 1..n :
                  /\ bucket_items[i].bucket_name = call.s3_bucket
                  /\ DOMAIN bucket_items[i] = {"bucket_name", "bucket_key"}
            /\ \A i, j \in 1..n :
                  i < j => PositionIn(listing, ItemKeys[i])
                              < PositionIn(listing, ItemKeys[j])

C2_Witness ==
    /\ pc = "listed"
    /\ call.s3_bucket_key = Some(<<"a">>)
    /\ remote = {K_Ab, K_ab, K_a_b}
    /\ ItemKeys = <<K_ab, K_a_b>>

\* C3: with a count of zero get_s3_bucket creates no directory and attempts
\* no download; a directory is created only with a count above zero, and
\* then it is the target folder, which did not exist
C3_ZeroCountNoMutation ==
    /\ bucket_size = 0 =>
          (dirs = dirs0 /\ DOMAIN files = {} /\ downloads = <<>>)
    /\ dirs # dirs0 =>
          /\ bucket_size > 0
          /\ Downloading
          /\ dirs = dirs0 \cup {target}
          /\ target \notin dirs0
    /\ ~Downloading => (dirs = dirs0 /\ downloads = <<>>)

C3_Witness ==
    /\ pc = "done"
    /\ call.entry = "get"
    /\ call.target_folder = Some(<<"t">>)
    /\ bucket_size = 0
    /\ remote # {}
    /\ <<"t">> \notin dirs

ExpectedTarget ==
    IF call.target_folder # None /\ call.target_folder[1] # <<>>
    THEN call.target_folder[1]
    ELSE CURRENT_WORKING_DIR \o <<"/">> \o call.s3_bucket

\* C4: after a get_s3_bucket with a count above zero and no failing
\* download, every listed item was downloaded once, in listing order, to
\* target_folder/<key with '/' replaced by '_'>
C4_EachItemDownloadedFlattened ==
    (pc = "done" /\ Downloading /\ bucket_size > 0) =>
        /\ Len(downloads) = Len(bucket_items)
        /\ ExpectedTarget \in dirs
        /\ \A i \in 1..Len(downloads) :
              /\ downloads[i].ok
              /\ downloads[i].bucket = bucket_items[i].bucket_name
              /\ downloads[i].key = bucket_items[i].bucket_key
              /\ downloads[i].path
                    = ExpectedTarget \o <<"/">> \o Flattened(downloads[i].key)
              /\ downloads[i].path \in DOMAIN files
              /\ downloads[i].key = K_abc =>
                    downloads[i].path = ExpectedTarget \o
                        <<"/", "a", "_", "b", "_", "c", ".", "t", "x", "t">>

C4_Witness ==
    /\ pc = "done"
    /\ call.entry = "get"
    /\ call.target_folder = None
    /\ Len(downloads) = 2
    /\ downloads[2].key = K_abc
    /\ downloads[2].path = <<"w", "/", "k", "/",
                             "a", "_", "b", "_", "c", ".", "t", "x", "t">>

\* C5: downloads are issued in listing order; a failing download ends
\* get_s3_bucket with the error and nothing after it is attempted, the
\* files of the items before it and the target folder stay
C5_FailureAbortsRest ==
    /\ Len(downloads) <= Len(bucket_items)
    /\ \A i \in 1..Len(downloads) :
          /\ downloads[i].key = bucket_items[i].bucket_key
          /\ ~downloads[i].ok =>
                /\ i = Len(downloads)
                /\ pc = "error"
                /\ err = "SDKError"
                /\ target \in dirs
                /\ {downloads[j].path : j \in 1..(i - 1)} \subseteq DOMAIN files

C5_Witness ==
    /\ pc = "error"
    /\ err = "SDKError"
    /\ Len(bucket_items) = 3
    /\ Len(downloads) = 2
    /\ Cardinality(DOMAIN files) = 1
    /\ target \notin dirs0

\* C9: when main runs without --bucket-key, the run never ends in an error
\* caused by the missing prefix: the listing covers every object
C9_OmittedKeyListsAll ==
    (call.entry = "main" /\ call.s3_bucket_key = None) =>
        /\ err # "TypeError"
        /\ pc = "listed" => Len(bucket_items) = Cardinality(remote)

\* C10: after a successful get_s3_bucket the number of distinct files
\* written is at most bucket_size, and equals it exactly when the
\* flattened names of the listed keys are pairwise distinct
C10_FilesAtMostSize ==
    (pc = "done" /\ Downloading /\ bucket_size > 0) =>
        LET n == Len(bucket_items)
            distinctNames ==
                \A i, j \in 1..n :
                    Flattened(ItemKeys[i]) = Flattened(ItemKeys[j]) => i = j
        IN  /\ Cardinality(DOMAIN files) <= bucket_size
            /\ (Cardinality(DOMAIN files) = bucket_size) <=> distinctNames

\* the same count taken against the items the collect pass returned
FilesAtMostItems ==
    (pc = "done" /\ Downloading /\ bucket_size > 0) =>
        LET n == Len(bucket_items)
            distinctNames ==
                \A i, j \in 1..n :
                    Flattened(ItemKeys[i]) = Flattened(ItemKeys[j]) => i = j
        IN  /\ Cardinality(DOMAIN files) <= n
            /\ (Cardinality(DOMAIN files) = n) <=> distinctNames
            /\ \A i \in 1..n :
                  files[downloads[i].path] =
                      ItemKeys[CHOOSE j \in 1..n :
                          /\ downloads[j].path = downloads[i].path
                          /\ \A m \in 1..n :
                                downloads[m].path = downloads[i].path => m <= j]

---------------------------------------------------------------------------
(* Properties of the credential resolution *)

Missing(v) == env[v] = None \/ env[v][1] = ""

\* the first non-empty value among AWS_DEFAULT_REGION and AWS_REGION
FirstNonEmptyRegion ==
    IF ~Missing("AWS_DEFAULT_REGION") THEN env["AWS_DEFAULT_REGION"][1]
    ELSE IF ~Missing("AWS_REGION") THEN env["AWS_REGION"][1]
    ELSE ""

FromEnvironment == cpc # "start" /\ client.via \in {"keys", "raised"}

\* C6: the resolved region is the first non-empty value among
\* AWS_DEFAULT_REGION and AWS_REGION
C6_RegionFirstNonEmpty ==
    (FromEnvironment /\ FirstNonEmptyRegion # ""
        /\ ~Missing("AWS_ACCESS_KEY_ID_DEV")
        /\ ~Missing("AWS_SECRET_ACCESS_KEY_DEV")) =>
            /\ client.via = "keys"
            /\ client.credentials.aws_region_name = FirstNonEmptyRegion

\* C7: region, access key and secret key are checked in that order; the
\* first missing one is named by the AwsConfigException, and with all three
\* present exactly their values are returned, never an empty field
C7_ChecksInOrder ==
    FromEnvironment =>
        LET c == client.credentials
        IN  IF FirstNonEmptyRegion = ""
            THEN c = Raised("Environment variable [AWS_DEFAULT_REGION | AWS_REGION] not set")
            ELSE IF Missing("AWS_ACCESS_KEY_ID_DEV")
            THEN c = Raised("Environment variable AWS_ACCESS_KEY_ID_DEV not set")
            ELSE IF Missing("AWS_SECRET_ACCESS_KEY_DEV")
            THEN c = Raised("Environment variable AWS_SECRET_ACCESS_KEY_DEV not set")
            ELSE /\ ~c.raised
                 /\ c.aws_region_name = FirstNonEmptyRegion
                 /\ c.aws_access_key_id = env["AWS_ACCESS_KEY_ID_DEV"][1]
                 /\ c.aws_secret_access_key = env["AWS_SECRET_ACCESS_KEY_DEV"][1]

\* the same statement outside the case of an AWS_DEFAULT_REGION that is set
\* to the empty string while AWS_REGION has a value
ChecksInOrderUnlessEmptyDefault ==
    (env["AWS_DEFAULT_REGION"] = Some("") /\ ~Missing("AWS_REGION"))
        \/ C7_ChecksInOrder

NoEmptyFieldReturned ==
    (FromEnvironment /\ ~client.credentials.raised) =>
        /\ client.credentials.aws_region_name # ""
        /\ client.credentials.aws_access_key_id # ""
        /\ client.credentials.aws_secret_access_key # ""

---------------------------------------------------------------------------
(* Properties of the CSV consolidation *)

AllFieldnames == UNION {Range(f.fieldnames) : f \in inputs}

\* C8: the written header is the union of the input files' column names
\* with " (S)" and " (N)" stripped, each name once, and every input row is
\* written once under those names with absent columns blank
C8_HeaderIsCleansedUnion ==
    kpc # "read" =>
        /\ kpc = "done"
        /\ Range(output[1].header) = cleanse_header(AllFieldnames)
        /\ Len(output[1].header) = Cardinality(cleanse_header(AllFieldnames))
        /\ Len(output[1].rows) = Len(csv_records)

\* what the script writes: the union of the names as they are in the files
HeaderIsRawUnion ==
    kpc # "read" =>
        /\ kpc = "done"
        /\ out_exists
        /\ Range(output[1].header) = AllFieldnames
        /\ Len(output[1].header) = Cardinality(AllFieldnames)
        /\ Len(output[1].rows) = Len(csv_records)
        /\ \A r \in 1..Len(csv_records), i \in 1..Len(output[1].header) :
              output[1].rows[r][i] =
                  IF output[1].header[i] \in DOMAIN csv_records[r]
                  THEN csv_records[r][output[1].header[i]] ELSE ""

====
